---- MODULE Spec2Model ----
(***************************************************************************)
(* Model of the harness body that madsim-macros' `parse` generates for     *)
(* #[madsim::main] / #[madsim::test] (src/madsim-macros/src/lib.rs:74-116).*)
(* One invocation of the generated function is a sequential process whose   *)
(* position is `pc`; each action is one statement of the generated block.   *)
(* The runtime (madsim::Runtime) is an external collaborator: its calls     *)
(* are modelled by what the harness can observe of them.                    *)
(***************************************************************************)
EXTENDS Integers, Sequences, FiniteSets, TLC

\* ------------------------------------------------------------------ bounds
\* Largest value of the (scaled-down) unsigned seed/count type: u64 in the
\* source, 0..U64Max here. Arithmetic on it overflows past U64Max.
U64Max == 9
\* Largest iteration count that an environment of the model requests.
MaxNum == 3
\* Latest clock reading (whole seconds since the epoch) of the model.
MaxNow == 2
\* Largest sub-second part of a clock reading of the model.
MaxNanos == 1

U64Mod == U64Max + 1

\* ------------------------------------------------------ text <-> numbers
Digits == {"0", "1", "2", "3", "4", "5", "6", "7", "8", "9"}

DigitVal(c) ==
  CASE c = "0" -> 0 [] c = "1" -> 1 [] c = "2" -> 2 [] c = "3" -> 3
    [] c = "4" -> 4 [] c = "5" -> 5 [] c = "6" -> 6 [] c = "7" -> 7
    [] c = "8" -> 8 [] c = "9" -> 9

DigitChar(d) ==
  CASE d = 0 -> "0" [] d = 1 -> "1" [] d = 2 -> "2" [] d = 3 -> "3"
    [] d = 4 -> "4" [] d = 5 -> "5" [] d = 6 -> "6" [] d = 7 -> "7"
    [] d = 8 -> "8" [] d = 9 -> "9"

ParseErr == [ok |-> FALSE, val |-> 0]

\* The digit loop of <u64 as FromStr>::from_str: every character must be a
\* decimal digit and the accumulated value must stay within the type.
RECURSIVE ParseDigits(_, _)
ParseDigits(s, acc) ==
  IF s = <<>> THEN [ok |-> TRUE, val |-> acc]
  ELSE IF Head(s) \notin Digits THEN ParseErr
  ELSE LET v == acc * 10 + DigitVal(Head(s))
       IN  IF v > U64Max THEN ParseErr ELSE ParseDigits(Tail(s), v)

\* str::parse::<u64>(): empty text is an error, one leading "+" is accepted,
\* a "-" or any other character is an invalid digit, nothing is trimmed.
ParseU64(s) ==
  IF s = <<>> THEN ParseErr
  ELSE LET body == IF Head(s) = "+" THEN Tail(s) ELSE s
       IN  IF body = <<>> THEN ParseErr ELSE ParseDigits(body, 0)

\* Display of an unsigned integer ("{}"): its decimal digits, no sign, no
\* leading zeros.
RECURSIVE FormatU64(_)
FormatU64(n) ==
  IF n < 10 THEN <<DigitChar(n)>>
  ELSE Append(FormatU64(n \div 10), DigitChar(n % 10))

\* An f64 as far as the harness depends on it: finite (sign, digits and the
\* number of fraction digits), infinite or not-a-number.
F64(kind, neg, mant, frac) ==
  [ok |-> TRUE, kind |-> kind, neg |-> neg, mant |-> mant, frac |-> frac]

F64Err == [ok |-> FALSE, kind |-> "finite", neg |-> FALSE, mant |-> 0, frac |-> 0]

\* Digits of a decimal literal: at most one ".", at least one digit; the
\* arguments carry the digits read, how many follow the ".", how many were
\* read in all and whether the "." was seen.
RECURSIVE ParseDecimal(_, _, _, _, _)
ParseDecimal(s, mant, frac, nd, dot) ==
  IF s = <<>> THEN (IF nd = 0 THEN F64Err ELSE F64("finite", FALSE, mant, frac))
  ELSE IF Head(s) = "." THEN
         (IF dot THEN F64Err ELSE ParseDecimal(Tail(s), mant, frac, nd, TRUE))
  ELSE IF Head(s) \in Digits THEN
         ParseDecimal(Tail(s), mant * 10 + DigitVal(Head(s)),
                      IF dot THEN frac + 1 ELSE frac, nd + 1, dot)
  ELSE F64Err

\* str::parse::<f64>() on the texts of the model (no exponent part): an
\* optional sign, then "inf", "nan" or a decimal literal.
ParseF64(s) ==
  IF s = <<>> THEN F64Err
  ELSE LET signed == Head(s) \in {"+", "-"}
           neg    == Head(s) = "-"
           body   == IF signed THEN Tail(s) ELSE s
       IN  IF body = <<"i", "n", "f">> THEN F64("inf", neg, 0, 0)
           ELSE IF body = <<"n", "a", "n">> THEN F64("nan", neg, 0, 0)
           ELSE LET r == ParseDecimal(body, 0, 0, 0, FALSE)
                IN  IF r.ok THEN F64("finite", neg, r.mant, r.frac) ELSE F64Err

\* Duration::from_secs_f64 panics when the value is negative, not finite or
\* too large for a Duration; the finite values of the model are all small.
DurationOk(f) == f.kind = "finite" /\ ~(f.neg /\ f.mant > 0)

\* ------------------------------------------------------------- environment
\* The result of std::env::var(name): Err(NotPresent), Err(NotUnicode) or
\* Ok(text).
NotPresent == [tag |-> "NotPresent", s |-> <<>>]
NotUnicode == [tag |-> "NotUnicode", s |-> <<>>]
OkVar(s)   == [tag |-> "Ok", s |-> s]
IsOk(v)    == v.tag = "Ok"

SeedVals ==
  {NotPresent, NotUnicode, OkVar(<<"x">>), OkVar(<<"+", "5">>),
   OkVar(FormatU64(U64Max)), OkVar(FormatU64(U64Max + 1))}
NumVals ==
  {NotPresent, NotUnicode, OkVar(<<>>), OkVar(FormatU64(0)),
   OkVar(FormatU64(2)), OkVar(FormatU64(MaxNum))}
LimitVals ==
  {NotPresent, NotUnicode, OkVar(<<"1", ".", "5">>), OkVar(<<"-", "1">>),
   OkVar(<<"i", "n", "f">>), OkVar(<<"1", "s">>)}
CheckVals == {NotPresent, NotUnicode, OkVar(<<"1">>)}

Envs == [SEED : SeedVals, NUM : NumVals, LIMIT : LimitVals, CHECK : CheckVals]

\* --------------------------------------------------------------- adapter
Logs     == {"logA", "logB"}
None     == "None"
OptLog   == Logs \cup {None}
Payloads == {"assert failed", "time limit exceeded"}
DurationPanic == "Duration::from_secs_f64 panic"
OverflowPanic == "attempt to add with overflow"
SeedExpect  == "MADSIM_TEST_SEED should be an integer"
NumExpect   == "MADSIM_TEST_NUM should be an integer"
LimitExpect == "MADSIM_TEST_TIME_LIMIT should be an number"
Times    == 1..MaxNow
NoLimit  == [some |-> FALSE, f |-> F64Err]
SomeLimit(f) == [some |-> TRUE, f |-> f]

VARIABLES
  env,              \* the process environment
  overflow_checks,  \* whether the build traps integer overflow
  now,              \* the clock: whole seconds since UNIX_EPOCH
  nanos,            \* the clock: the part of a second past `now`
  run,              \* 1 for an invocation, 2 for a follow-up invocation
  prev,             \* what the invocation before the follow-up did
  pc,               \* position of the invocation in the generated block
  seed,             \* `seed` of line 77
  count,            \* `count` of line 82
  time_limit_s,     \* `time_limit_s` of line 87
  check,            \* `check` of line 90
  rand_log,         \* `rand_log` of line 94
  i,                \* loop variable of line 95
  iseed,            \* `seed` of line 96 (shadows the base seed)
  rand_log0,        \* `rand_log0` of line 97
  rt,               \* the live Runtime of the closure, if any
  ret,              \* `ret` of line 98
  stdout,           \* lines printed by the harness
  raised,           \* panic payload that left the generated function
  iters             \* history: one record per adapter created

vars == <<env, overflow_checks, now, nanos, run, prev, pc, seed, count, time_limit_s,
          check, rand_log, i, iseed, rand_log0, rt, ret, stdout, raised, iters>>

NoRt  == [alive |-> FALSE, seed |-> 0]
NoRet == [set |-> FALSE, ok |-> FALSE, val |-> None]

NoPrev == [kind |-> "none",
           env |-> [SEED |-> NotPresent, NUM |-> NotPresent,
                    LIMIT |-> NotPresent, CHECK |-> NotPresent],
           pc |-> "ResolveSeed", iters |-> <<>>, stdout |-> <<>>,
           raised |-> None, seed |-> 0, now |-> 0, nanos |-> 0]

\* The generated function is entered with nothing resolved yet.
Entry ==
  /\ pc = "ResolveSeed"
  /\ seed = 0 /\ count = 0 /\ time_limit_s = NoLimit /\ check = FALSE
  /\ rand_log = None /\ i = 0 /\ iseed = 0 /\ rand_log0 = None
  /\ rt = NoRt /\ ret = NoRet
  /\ stdout = <<>> /\ raised = None /\ iters = <<>>

Init ==
  /\ env \in Envs
  /\ overflow_checks \in BOOLEAN
  /\ now \in Times /\ nanos = 0
  /\ run = 1 /\ prev = NoPrev
  /\ Entry

\* ------------------------------------------------------------ resolution
\* As DefaultSeed, for a default that does not read the clock.
DefaultSeedFixed(secs, subsec) == 0

\* Line 80: duration_since(UNIX_EPOCH).as_secs() keeps the whole seconds of
\* the clock reading and drops the rest.
DefaultSeed(secs, subsec) == secs

\* Lines 77-81: the base seed, from MADSIM_TEST_SEED or from the clock.
ResolveSeed ==
  /\ pc = "ResolveSeed"
  /\ IF IsOk(env.SEED)
     THEN LET r == ParseU64(env.SEED.s)
          IN  IF r.ok
              THEN /\ seed' = r.val /\ pc' = "ResolveCount"
                   /\ UNCHANGED raised
              ELSE /\ raised' = SeedExpect /\ pc' = "ConfigError"
                   /\ UNCHANGED seed
     ELSE /\ seed' = DefaultSeed(now, nanos)
          /\ pc' = "ResolveCount"
          /\ UNCHANGED raised
  /\ UNCHANGED <<env, overflow_checks, now, nanos, prev, run, count, time_limit_s, check, rand_log, i,
                 iseed, rand_log0, rt, ret, stdout, iters>>

\* Lines 82-86: the iteration count, from MADSIM_TEST_NUM or 1.
ResolveCount ==
  /\ pc = "ResolveCount"
  /\ IF IsOk(env.NUM)
     THEN LET r == ParseU64(env.NUM.s)
          IN  IF r.ok
              THEN /\ count' = r.val /\ pc' = "ResolveLimit"
                   /\ UNCHANGED raised
              ELSE /\ raised' = NumExpect /\ pc' = "ConfigError"
                   /\ UNCHANGED count
     ELSE /\ count' = 1 /\ pc' = "ResolveLimit"
          /\ UNCHANGED raised
  /\ UNCHANGED <<env, overflow_checks, now, nanos, prev, run, seed, time_limit_s, check, rand_log, i,
                 iseed, rand_log0, rt, ret, stdout, iters>>

\* Lines 87-89: the optional time limit, from MADSIM_TEST_TIME_LIMIT.
ResolveLimit ==
  /\ pc = "ResolveLimit"
  /\ IF IsOk(env.LIMIT)
     THEN LET f == ParseF64(env.LIMIT.s)
          IN  IF f.ok
              THEN /\ time_limit_s' = SomeLimit(f) /\ pc' = "ResolveCheck"
                   /\ UNCHANGED raised
              ELSE /\ raised' = LimitExpect /\ pc' = "ConfigError"
                   /\ UNCHANGED time_limit_s
     ELSE /\ time_limit_s' = NoLimit /\ pc' = "ResolveCheck"
          /\ UNCHANGED raised
  /\ UNCHANGED <<env, overflow_checks, now, nanos, prev, run, seed, count, check, rand_log, i, iseed,
                 rand_log0, rt, ret, stdout, iters>>

\* As ForcedCount, with the assignment of line 92 left out.
ForcedCountKeep(chk, n) == n

\* Lines 91-93: the count in force once `check` is known.
ForcedCount(chk, n) == IF chk THEN 2 ELSE n

\* Lines 90-94: the determinism-check flag, the forced count, the empty log.
ResolveCheck ==
  /\ pc = "ResolveCheck"
  /\ check' = IsOk(env.CHECK)
  /\ count' = ForcedCount(IsOk(env.CHECK), count)
  /\ rand_log' = None
  /\ i' = 0
  /\ pc' = "LoopNext"
  /\ UNCHANGED <<env, overflow_checks, now, nanos, prev, run, seed, time_limit_s, iseed, rand_log0, rt,
                 ret, stdout, raised, iters>>

\* ------------------------------------------------------------------ loop
\* As LoopNext, with MADSIM_TEST_NUM read again before every iteration.
LoopNextRereads ==
  /\ pc = "LoopNext"
  /\ LET r == ParseU64(env.NUM.s)
         n == IF IsOk(env.NUM) /\ r.ok THEN r.val ELSE count
     IN  /\ count' = n
         /\ pc' = IF i < n THEN "ComputeSeed" ELSE "Done"
  /\ UNCHANGED <<env, overflow_checks, now, nanos, prev, run, seed,
                 time_limit_s, check, rand_log, i, iseed, rand_log0, rt, ret,
                 stdout, raised, iters>>

\* Line 95: `for i in 0..count` yields i while i < count.
LoopNext ==
  /\ pc = "LoopNext"
  /\ pc' = IF i < count THEN "ComputeSeed" ELSE "Done"
  /\ UNCHANGED <<env, overflow_checks, now, nanos, prev, run, seed, count, time_limit_s, check,
                 rand_log, i, iseed, rand_log0, rt, ret, stdout, raised, iters>>

\* Line 96: the seed of iteration k as an unbounded sum.
IterSeed(chk, base, k) == IF chk THEN base ELSE base + k

\* As ComputeSeed, with the log copied instead of moved out of `rand_log`.
ComputeSeedClone ==
  /\ pc = "ComputeSeed"
  /\ LET s == IterSeed(check, seed, i)
     IN  IF s > U64Max /\ overflow_checks
         THEN /\ raised' = OverflowPanic /\ pc' = "Panicked"
              /\ UNCHANGED <<iseed, rand_log0>>
         ELSE /\ iseed' = s % U64Mod
              /\ rand_log0' = rand_log
              /\ pc' = "NewRuntime"
              /\ UNCHANGED raised
  /\ UNCHANGED <<env, overflow_checks, now, nanos, prev, run, seed, count,
                 time_limit_s, check, rand_log, i, rt, ret, stdout, iters>>

\* Lines 96-97: the iteration's seed (u64 addition: a build with overflow
\* checks panics past the type's range, any other build wraps) and the log
\* moved out of `rand_log`.
ComputeSeed ==
  /\ pc = "ComputeSeed"
  /\ LET s == IterSeed(check, seed, i)
     IN  IF s > U64Max /\ overflow_checks
         THEN /\ raised' = OverflowPanic /\ pc' = "Panicked"
              /\ UNCHANGED <<iseed, rand_log0, rand_log>>
         ELSE /\ iseed' = s % U64Mod
              /\ rand_log0' = rand_log
              /\ rand_log' = None
              /\ pc' = "NewRuntime"
              /\ UNCHANGED raised
  /\ UNCHANGED <<env, overflow_checks, now, nanos, prev, run, seed, count, time_limit_s, check, i, rt,
                 ret, stdout, iters>>

NewIter(k, s) ==
  [idx |-> k, seed |-> s, enabled |-> FALSE, log0 |-> None, limited |-> FALSE,
   started |-> FALSE, outcome |-> "running", payload |-> None, taken |-> None,
   drops |-> 0, ops |-> <<"new_with_seed">>]

Last == Len(iters)

\* Line 99: madsim::Runtime::new_with_seed(seed).
NewRuntime ==
  /\ pc = "NewRuntime"
  /\ rt' = [alive |-> TRUE, seed |-> iseed]
  /\ iters' = Append(iters, NewIter(i, iseed))
  /\ pc' = "EnableCheck"
  /\ UNCHANGED <<env, overflow_checks, now, nanos, prev, run, seed, count, time_limit_s, check,
                 rand_log, i, iseed, rand_log0, ret, stdout, raised>>

\* As EnableCheck, with the call made whether or not `check` is set.
EnableCheckAlways ==
  /\ pc = "EnableCheck"
  /\ iters' = [iters EXCEPT ![Last].enabled = TRUE, ![Last].log0 = rand_log0,
                            ![Last].ops = Append(@, "enable_deterministic_check")]
  /\ rand_log0' = None
  /\ pc' = "SetLimit"
  /\ UNCHANGED <<env, overflow_checks, now, nanos, prev, run, seed, count,
                 time_limit_s, check, rand_log, i, iseed, rt, ret, stdout,
                 raised>>

\* Lines 100-102: rt.enable_deterministic_check(rand_log0) when `check`.
EnableCheck ==
  /\ pc = "EnableCheck"
  /\ IF check
     THEN /\ iters' = [iters EXCEPT ![Last].enabled = TRUE, ![Last].log0 = rand_log0,
                                    ![Last].ops = Append(@, "enable_deterministic_check")]
          /\ rand_log0' = None
     ELSE UNCHANGED <<iters, rand_log0>>
  /\ pc' = "SetLimit"
  /\ UNCHANGED <<env, overflow_checks, now, nanos, prev, run, seed, count, time_limit_s, check,
                 rand_log, i, iseed, rt, ret, stdout, raised>>

\* Lines 103-105: rt.set_time_limit(Duration::from_secs_f64(limit)) when a
\* limit is configured; the conversion panics inside the closure.
SetLimit ==
  /\ pc = "SetLimit"
  /\ IF time_limit_s.some
     THEN IF DurationOk(time_limit_s.f)
          THEN /\ iters' = [iters EXCEPT ![Last].limited = TRUE,
                                         ![Last].ops = Append(@, "set_time_limit")]
               /\ pc' = "BlockOn"
          ELSE /\ iters' = [iters EXCEPT ![Last].outcome = "fail",
                                         ![Last].payload = DurationPanic]
               /\ pc' = "Unwind"
     ELSE /\ pc' = "BlockOn" /\ UNCHANGED iters
  /\ UNCHANGED <<env, overflow_checks, now, nanos, prev, run, seed, count, time_limit_s, check,
                 rand_log, i, iseed, rand_log0, rt, ret, stdout, raised>>

\* A follow-up invocation meets the same runtime: where the invocation
\* before it ran the body of iteration k, block_on ends the same way, and
\* where it took a log, take_rand_log yields the same log. A runtime with
\* the determinism check enabled yields the log it recorded; one without
\* may have none to yield.
Replays(k) ==
  /\ run = 2 /\ prev.kind = "same"
  /\ k <= Len(prev.iters) /\ prev.iters[k].started

BodyOutcomes(k) ==
  IF Replays(k) THEN {[outcome |-> prev.iters[k].outcome,
                       payload |-> prev.iters[k].payload]}
  ELSE {[outcome |-> "ok", payload |-> None]}
       \cup {[outcome |-> "fail", payload |-> p] : p \in Payloads}

TakenLogs(k) ==
  IF Replays(k) /\ prev.iters[k].outcome = "ok" THEN {prev.iters[k].taken}
  ELSE IF iters[k].enabled THEN Logs
  ELSE OptLog

\* Line 106: rt.block_on(async body) returns, or panics with some payload.
BlockOn ==
  /\ pc = "BlockOn"
  /\ \E o \in BodyOutcomes(Last) :
       /\ iters' = [iters EXCEPT ![Last].started = TRUE,
                                 ![Last].outcome = o.outcome,
                                 ![Last].payload = o.payload,
                                 ![Last].ops = Append(@, "block_on")]
       /\ pc' = IF o.outcome = "ok" THEN "TakeLog" ELSE "Unwind"
  /\ UNCHANGED <<env, overflow_checks, now, nanos, prev, run, seed, count, time_limit_s, check,
                 rand_log, i, iseed, rand_log0, rt, ret, stdout, raised>>

\* As TakeLog, with the runtime kept alive past the closure.
TakeLogLeak ==
  /\ pc = "TakeLog"
  /\ \E l \in TakenLogs(Last) :
       /\ iters' = [iters EXCEPT ![Last].taken = l,
                                 ![Last].ops = Append(@, "take_rand_log")]
       /\ ret' = [set |-> TRUE, ok |-> TRUE, val |-> l]
  /\ rand_log0' = None
  /\ pc' = "HandleRet"
  /\ UNCHANGED <<env, overflow_checks, now, nanos, prev, run, seed, count,
                 time_limit_s, check, rand_log, i, iseed, rt, stdout, raised>>

\* Lines 107-108: rt.take_rand_log() consumes the runtime and its value is
\* the closure's; catch_unwind returns Ok of it.
TakeLog ==
  /\ pc = "TakeLog"
  /\ \E l \in TakenLogs(Last) :
       /\ iters' = [iters EXCEPT ![Last].taken = l, ![Last].drops = @ + 1,
                                 ![Last].ops = Append(@, "take_rand_log")]
       /\ ret' = [set |-> TRUE, ok |-> TRUE, val |-> l]
  /\ rt' = NoRt
  /\ rand_log0' = None
  /\ pc' = "HandleRet"
  /\ UNCHANGED <<env, overflow_checks, now, nanos, prev, run, seed, count, time_limit_s, check,
                 rand_log, i, iseed, stdout, raised>>

\* Line 98: a panic inside the closure unwinds it, dropping `rt` (and the
\* log still held by the closure); catch_unwind returns Err of the payload.
Unwind ==
  /\ pc = "Unwind"
  /\ iters' = [iters EXCEPT ![Last].drops = @ + 1]
  /\ ret' = [set |-> TRUE, ok |-> FALSE, val |-> iters[Last].payload]
  /\ rt' = NoRt
  /\ rand_log0' = None
  /\ pc' = "HandleRet"
  /\ UNCHANGED <<env, overflow_checks, now, nanos, prev, run, seed, count, time_limit_s, check,
                 rand_log, i, iseed, stdout, raised>>

\* Line 110: the text of the reproducibility line.
SeedLine(s) == [name |-> "MADSIM_TEST_SEED", value |-> FormatU64(s)]

\* As ReportSeed, printing the base seed of line 77.
ReportSeedBase ==
  /\ pc = "HandleRet"
  /\ ret.set /\ ~ret.ok
  /\ stdout' = Append(stdout, SeedLine(seed))
  /\ pc' = "Resume"
  /\ UNCHANGED <<env, overflow_checks, now, nanos, prev, run, seed, count,
                 time_limit_s, check, rand_log, i, iseed, rand_log0, rt, ret,
                 raised, iters>>

\* Lines 109-110: on Err, print the seed of this iteration.
ReportSeed ==
  /\ pc = "HandleRet"
  /\ ret.set /\ ~ret.ok
  /\ stdout' = Append(stdout, SeedLine(iseed))
  /\ pc' = "Resume"
  /\ UNCHANGED <<env, overflow_checks, now, nanos, prev, run, seed, count, time_limit_s, check,
                 rand_log, i, iseed, rand_log0, rt, ret, raised, iters>>

\* As ResumeUnwind, panicking afresh instead of resuming the payload.
ResumeUnwindFresh ==
  /\ pc = "Resume"
  /\ raised' = "test failed"
  /\ pc' = "Failed"
  /\ UNCHANGED <<env, overflow_checks, now, nanos, prev, run, seed, count,
                 time_limit_s, check, rand_log, i, iseed, rand_log0, rt, ret,
                 stdout, iters>>

\* Line 111: std::panic::resume_unwind(e).
ResumeUnwind ==
  /\ pc = "Resume"
  /\ raised' = ret.val
  /\ pc' = "Failed"
  /\ UNCHANGED <<env, overflow_checks, now, nanos, prev, run, seed, count, time_limit_s, check,
                 rand_log, i, iseed, rand_log0, rt, ret, stdout, iters>>

\* As StoreLog, with the seed printed for a successful iteration too.
StoreLogPrinting ==
  /\ pc = "HandleRet"
  /\ ret.set /\ ret.ok
  /\ stdout' = Append(stdout, SeedLine(iseed))
  /\ rand_log' = ret.val
  /\ ret' = NoRet
  /\ i' = i + 1
  /\ pc' = "LoopNext"
  /\ UNCHANGED <<env, overflow_checks, now, nanos, prev, run, seed, count,
                 time_limit_s, check, iseed, rand_log0, rt, raised, iters>>

\* Line 113 and the loop's step: rand_log = ret.unwrap(); next i.
StoreLog ==
  /\ pc = "HandleRet"
  /\ ret.set /\ ret.ok
  /\ rand_log' = ret.val
  /\ ret' = NoRet
  /\ i' = i + 1
  /\ pc' = "LoopNext"
  /\ UNCHANGED <<env, overflow_checks, now, nanos, prev, run, seed, count, time_limit_s, check, iseed,
                 rand_log0, rt, stdout, raised, iters>>

Next ==
  \/ ResolveSeed \/ ResolveCount \/ ResolveLimit \/ ResolveCheck
  \/ LoopNext \/ ComputeSeed \/ NewRuntime \/ EnableCheck \/ SetLimit
  \/ BlockOn \/ TakeLog \/ Unwind \/ ReportSeed \/ ResumeUnwind \/ StoreLog

Spec == Init /\ [][Next]_vars

Terminal == pc \in {"Done", "Failed", "ConfigError", "Panicked"}

\* -------------------------------------------------- follow-up invocation
\* What a follow-up invocation can be compared with.
Snapshot(kind) ==
  [kind |-> kind, env |-> env, pc |-> pc, iters |-> iters, stdout |-> stdout,
   raised |-> raised, seed |-> seed, now |-> now, nanos |-> nanos]

\* The generated function is entered again.
Restart ==
  /\ run' = 2
  /\ pc' = "ResolveSeed"
  /\ seed' = 0 /\ count' = 0 /\ time_limit_s' = NoLimit /\ check' = FALSE
  /\ rand_log' = None /\ i' = 0 /\ iseed' = 0 /\ rand_log0' = None
  /\ rt' = NoRt /\ ret' = NoRet
  /\ stdout' = <<>> /\ raised' = None /\ iters' = <<>>

\* The generated function is called again, in the same build and at the
\* same clock reading, with MADSIM_TEST_NUM alone set differently.
Reinvoke ==
  /\ run = 1 /\ Terminal
  /\ prev' = Snapshot("same")
  /\ \E v \in NumVals : env' = [env EXCEPT !.NUM = v]
  /\ Restart
  /\ UNCHANGED <<overflow_checks, now, nanos>>

\* Values of MADSIM_TEST_NUM of a reproduction run: none, 0 and MaxNum.
ReproNums == {NotPresent, OkVar(FormatU64(0)), OkVar(FormatU64(MaxNum))}

\* After a failure the generated function is called again with the text of
\* the printed line as MADSIM_TEST_SEED, and one of these counts.
Reproduce ==
  /\ run = 1 /\ pc = "Failed"
  /\ Len(stdout) = 1 /\ stdout[1].name = "MADSIM_TEST_SEED"
  /\ prev' = Snapshot("repro")
  /\ \E v \in ReproNums :
       env' = [env EXCEPT !.SEED = OkVar(stdout[1].value), !.NUM = v]
  /\ Restart
  /\ UNCHANGED <<overflow_checks, now, nanos>>

\* The generated function is called again at a later clock reading, with
\* the environment as it was.
InvokeLater ==
  /\ run = 1 /\ Terminal
  /\ prev' = Snapshot("later")
  /\ \E t \in Times, n \in 0..MaxNanos :
       /\ t > now \/ (t = now /\ n > nanos)
       /\ now' = t /\ nanos' = n
  /\ Restart
  /\ UNCHANGED <<overflow_checks, env>>

\* Environments that the test body, or another thread of the process,
\* leaves behind with std::env::set_var / remove_var while the loop runs.
BodyEnvs ==
  {[SEED |-> OkVar(<<"x">>), NUM |-> OkVar(FormatU64(MaxNum)),
    LIMIT |-> OkVar(<<"-", "1">>), CHECK |-> OkVar(<<"1">>)],
   [SEED |-> NotPresent, NUM |-> NotPresent, LIMIT |-> NotPresent,
    CHECK |-> NotPresent]}

\* Line 106 (the body is the user's code) and the rest of the process: the
\* environment changes after the loop was entered.
SetVar ==
  /\ pc \in {"LoopNext", "ComputeSeed", "NewRuntime", "EnableCheck",
              "SetLimit", "BlockOn", "TakeLog", "Unwind", "HandleRet", "Resume"}
  /\ env' \in BodyEnvs \ {env}
  /\ UNCHANGED <<overflow_checks, now, nanos, prev, run, pc, seed, count,
                 time_limit_s, check, rand_log, i, iseed, rand_log0, rt, ret,
                 stdout, raised, iters>>

NextEnv == Next \/ SetVar

SpecEnv == Init /\ [][NextEnv]_vars

NextRepro == Next \/ Reproduce

NextLater == Next \/ InvokeLater

\* Environments of the invocations that are compared across clock readings.
LaterEnvs ==
  [SEED : {NotPresent, NotUnicode, OkVar(<<"+", "5">>)},
   NUM : {NotPresent, OkVar(FormatU64(2))},
   LIMIT : {NotPresent, OkVar(<<"-", "1">>)},
   CHECK : {NotPresent, OkVar(<<"1">>)}]

InitLater ==
  /\ env \in LaterEnvs
  /\ overflow_checks \in BOOLEAN
  /\ now \in Times /\ nanos = 0
  /\ run = 1 /\ prev = NoPrev
  /\ Entry

SpecLater == InitLater /\ [][NextLater]_vars

SpecRepro == Init /\ [][NextRepro]_vars

NextPair == Next \/ Reinvoke

SpecPair == Init /\ [][NextPair]_vars

TypeOK ==
  /\ seed \in 0..U64Max /\ count \in 0..U64Max /\ i \in 0..U64Max
  /\ iseed \in 0..U64Max
  /\ rand_log \in OptLog /\ rand_log0 \in OptLog
  /\ check \in BOOLEAN

\* ---------------------------------------------------------------- claims
Resolving == pc \in {"ResolveSeed", "ResolveCount", "ResolveLimit", "ResolveCheck"}
Resolved  == ~Resolving /\ pc # "ConfigError"
Ran       == 1..Len(iters)
IterFailed(k) == iters[k].outcome = "fail"
AllOk     == \A k \in Ran : iters[k].outcome = "ok"

\* C1: once iteration k has failed, it stays the last iteration ever started
\* (no later adapter is created, the loop never advances), and the only
\* line printed names MADSIM_TEST_SEED with the value of the seed that
\* iteration k's adapter was created with.
C1_FailureStopsLoopAndReportsItsSeed ==
  \A k \in Ran : IterFailed(k) =>
    /\ k = Len(iters)
    /\ iters[k].idx = i
    /\ pc \in {"Unwind", "HandleRet", "Resume", "Failed"}
    /\ Len(stdout) <= 1
    /\ pc \in {"Resume", "Failed"} => Len(stdout) = 1
    /\ \A n \in 1..Len(stdout) :
         /\ stdout[n].name = "MADSIM_TEST_SEED"
         /\ ParseU64(stdout[n].value) = [ok |-> TRUE, val |-> iters[k].seed]

\* An iteration after the first failed in a run without the determinism
\* check, with iterations left, and its seed (not the base seed) was printed.
C1_Witness ==
  /\ pc = "Failed" /\ ~check
  /\ Len(iters) >= 2 /\ Len(iters) < count
  /\ iters[Last].seed # seed
  /\ Len(stdout) = 1

\* C2: with the determinism check resolved on, the count is 2 whatever
\* MADSIM_TEST_NUM asked for, never more than two iterations run and a run
\* that completes ran exactly two, every adapter is created with the base
\* seed, every adapter gets the check enabled, and the second one gets
\* exactly the log taken from the first.
C2_CheckRunsTwiceWithBaseSeedAndLog ==
  check =>
    /\ count = 2
    /\ Len(iters) <= 2
    /\ pc = "Done" => Len(iters) = 2
    /\ \A k \in Ran :
         /\ iters[k].idx = k - 1
         /\ iters[k].seed = seed
         /\ (k < Len(iters) \/ pc # "EnableCheck") => iters[k].enabled
    /\ (Len(iters) = 2 /\ pc # "EnableCheck") => iters[2].log0 = iters[1].taken
    /\ (Len(iters) >= 1 /\ iters[1].enabled) => iters[1].log0 = None

\* A determinism-check run whose environment asked for MaxNum iterations
\* completed after handing a recorded log to its second adapter.
C2_Witness ==
  /\ check /\ pc = "Done"
  /\ IsOk(env.NUM) /\ ParseU64(env.NUM.s) = [ok |-> TRUE, val |-> MaxNum]
  /\ Len(iters) = 2 /\ iters[2].log0 \in Logs

\* C3 (as claimed): without the determinism check and with a count of at
\* least 1, iteration i creates its adapter with base seed + i, no two
\* iterations share a seed, iterations run in index order, and a run in
\* which every iteration succeeds ends having run exactly `count` of them.
C3_SeedsAreBasePlusIndex ==
  (Resolved /\ ~check /\ count >= 1) =>
    /\ \A k \in Ran : iters[k].idx = k - 1 /\ iters[k].seed = seed + (k - 1)
    /\ \A j, k \in Ran : j # k => iters[j].seed # iters[k].seed
    /\ Len(iters) <= count
    /\ (~ENABLED Next /\ AllOk) => (pc = "Done" /\ Len(iters) = count)

Present(v)       == v.tag # "NotPresent"
MalformedSeed    == Present(env.SEED) /\ ~(IsOk(env.SEED) /\ ParseU64(env.SEED.s).ok)
MalformedNum     == Present(env.NUM) /\ ~(IsOk(env.NUM) /\ ParseU64(env.NUM.s).ok)
MalformedLimit   == Present(env.LIMIT) /\ ~(IsOk(env.LIMIT) /\ ParseF64(env.LIMIT.s).ok)

\* C4 (as claimed): when the seed, count or time-limit variable is present
\* but is not text of its expected type, the invocation never gets past
\* resolution: it creates no adapter, prints no seed line and, once it can
\* take no more steps, is in ConfigError.
C4_MalformedOptionIsConfigError ==
  (MalformedSeed \/ MalformedNum \/ MalformedLimit) =>
    /\ Resolving \/ pc = "ConfigError"
    /\ iters = <<>> /\ stdout = <<>>
    /\ ~ENABLED Next => pc = "ConfigError"

\* C5: the failure leaves the generated function only after the seed line
\* was printed, and what leaves is the payload that the failed iteration
\* raised; until then nothing has been raised.
C5_SeedLineThenSamePayload ==
  /\ pc = "Failed" =>
       /\ Len(stdout) = 1
       /\ Len(iters) >= 1 /\ IterFailed(Last)
       /\ raised = iters[Last].payload
       /\ raised # None
  /\ ((\E k \in Ran : IterFailed(k)) /\ pc # "Failed") => raised = None
  /\ pc = "Resume" => (Len(stdout) = 1 /\ ret.val = iters[Last].payload)

\* The test body's own panic reached the caller after an earlier iteration
\* had succeeded.
C5_Witness ==
  /\ pc = "Failed" /\ raised = "time limit exceeded"
  /\ Len(iters) >= 2 /\ Len(stdout) = 1

\* C6 (as claimed): an invocation that has stopped is in exactly one of
\* Done, Failed and ConfigError; Done only with all `count` iterations
\* succeeded, Failed only with a failed iteration whose seed was printed.
C6_StopsInDoneFailedOrConfigError ==
  /\ ~ENABLED Next => pc \in {"Done", "Failed", "ConfigError"}
  /\ pc = "Done" => (Len(iters) = count /\ AllOk)
  /\ pc = "Failed" => (Len(iters) >= 1 /\ IterFailed(Last) /\ Len(stdout) = 1)
  /\ pc = "ConfigError" => iters = <<>>

\* C7: at most one seed line is ever printed; one is printed only after an
\* iteration failed; a run that stopped printed one exactly if an iteration
\* failed, so Done and ConfigError have printed none.
C7_SeedLineIffFailure ==
  /\ Len(stdout) <= 1
  /\ stdout # <<>> => \E k \in Ran : IterFailed(k)
  /\ ~ENABLED Next => (stdout # <<>> <=> \E k \in Ran : IterFailed(k))
  /\ pc \in {"Done", "ConfigError"} => stdout = <<>>

\* A run printed its one seed line after two iterations had succeeded.
C7_Witness ==
  /\ pc = "Failed" /\ Len(stdout) = 1
  /\ Len(iters) = 3 /\ iters[1].outcome = "ok" /\ iters[2].outcome = "ok"

\* C8 (as claimed): a resolved count is at least 1, and Done is reached
\* only after the test body was executed at least once.
C8_CountAtLeastOne ==
  /\ Resolved => count >= 1
  /\ pc = "Done" => \E k \in Ran : iters[k].started

\* What a run did, as its caller and its runtime see it.
SameRun ==
  /\ pc = prev.pc
  /\ iters = prev.iters
  /\ stdout = prev.stdout
  /\ raised = prev.raised

NumResolves(v) == ~IsOk(v) \/ ParseU64(v.s).ok

\* C9 (as claimed): with MADSIM_TEST_CHECK_DETERMINISTIC set, two
\* invocations that differ only in MADSIM_TEST_NUM, whatever its value, and
\* meet the same runtime, run the same iterations with the same seeds and
\* stop in the same state.
C9_CountOptionIgnored ==
  (run = 2 /\ IsOk(env.CHECK) /\ ~ENABLED NextPair) => SameRun

\* C9 (amended): the same, for values of MADSIM_TEST_NUM with which
\* resolution succeeds (absent, not Unicode, or an unsigned integer).
C9_ResolvableCountIgnored ==
  (run = 2 /\ IsOk(env.CHECK) /\ ~ENABLED NextPair
     /\ NumResolves(env.NUM) /\ NumResolves(prev.env.NUM)) => SameRun

\* A determinism-check run asking for MaxNum iterations completed exactly
\* as the run before it, which had no MADSIM_TEST_NUM, did.
C9_Witness ==
  /\ run = 2 /\ IsOk(env.CHECK) /\ pc = "Done"
  /\ prev.env.NUM = NotPresent
  /\ env.NUM = OkVar(FormatU64(MaxNum))
  /\ Len(iters) = 2 /\ SameRun

Alive == {k \in Ran : iters[k].drops = 0}

\* C10: at most one adapter is alive at any time; iteration k has its own
\* adapter, torn down exactly once by the time its closure has returned
\* (success or failure), hence before the next adapter is created and
\* before anything is raised to the caller.
C10_OneAdapterTornDownOnce ==
  /\ Cardinality(Alive) <= 1
  /\ rt.alive <=> Alive # {}
  /\ \A k \in Ran :
       /\ iters[k].idx = k - 1
       /\ iters[k].drops <= 1
       /\ k < Len(iters) => iters[k].drops = 1
  /\ pc \notin {"EnableCheck", "SetLimit", "BlockOn", "TakeLog", "Unwind"}
       => Alive = {}
  /\ raised # None => Alive = {}

\* The adapter of a third iteration is alive after one iteration succeeded
\* and the adapters of both earlier iterations were torn down.
C10_Witness ==
  /\ Len(iters) = 3 /\ rt.alive /\ Alive = {3}
  /\ iters[1].drops = 1 /\ iters[2].drops = 1

\* The logs that the generated block holds: in `rand_log`, in the
\* closure's `rand_log0`, in `ret`.
Held ==
  (IF rand_log # None THEN 1 ELSE 0) + (IF rand_log0 # None THEN 1 ELSE 0)
    + (IF ret.set /\ ret.ok /\ ret.val # None THEN 1 ELSE 0)

PrevTaken(k) == IF k = 1 THEN None ELSE iters[k - 1].taken
InClosure == pc \in {"NewRuntime", "EnableCheck", "SetLimit", "BlockOn", "TakeLog", "Unwind"}

\* C11: the block holds at most one log at a time; between iterations it
\* is the one taken from the adapter of the iteration just finished; it is
\* moved out of `rand_log` when the next iteration starts; and the log an
\* adapter is supplied with is the one taken from the adapter just before
\* it (none for the first), never one from further back.
C11_OneLogHandedOneStepForward ==
  /\ Held <= 1
  /\ (pc \in {"LoopNext", "ComputeSeed", "Done"} /\ iters # <<>>)
       => (rand_log = iters[Last].taken /\ rand_log0 = None)
  /\ InClosure => rand_log = None
  /\ pc = "NewRuntime" => rand_log0 = PrevTaken(Len(iters) + 1)
  /\ pc = "EnableCheck" => rand_log0 = PrevTaken(Last)
  /\ \A k \in Ran : iters[k].enabled => iters[k].log0 = PrevTaken(k)

\* The second adapter of a determinism-check run runs the body with the
\* first adapter's log, which the block no longer holds.
C11_Witness ==
  /\ check /\ pc = "BlockOn" /\ Len(iters) = 2
  /\ iters[2].log0 \in Logs /\ iters[2].log0 = iters[1].taken
  /\ Held = 0

FailedSeed == prev.iters[Len(prev.iters)].seed

\* C12: in a follow-up invocation whose MADSIM_TEST_SEED is the text
\* printed by a failed one, the first adapter is created with the seed the
\* failed iteration used; the text resolves, and with a count of at least 1
\* (or the determinism check) that first iteration does run.
C12_PrintedSeedReproduces ==
  (run = 2 /\ prev.kind = "repro") =>
    /\ Len(iters) >= 1 => iters[1].seed = FailedSeed
    /\ Resolved => seed = FailedSeed
    /\ raised # SeedExpect
    /\ (pc \in {"Done", "Failed", "Panicked"} /\ count >= 1) => Len(iters) >= 1

\* The follow-up of a run that failed in a later iteration, whose seed
\* was not the base seed, started its first iteration.
C12_Witness ==
  /\ run = 2 /\ prev.kind = "repro"
  /\ Len(prev.iters) >= 2 /\ FailedSeed # prev.seed
  /\ Len(iters) >= 1 /\ pc = "BlockOn"

DefaultedTwice ==
  /\ run = 2 /\ prev.kind = "later"
  /\ env.SEED = NotPresent
  /\ pc # "ResolveSeed"

\* C13 (as claimed): without MADSIM_TEST_SEED, an invocation started at a
\* later time than another resolves a different base seed.
C13_LaterInvocationDiffers ==
  DefaultedTwice => seed # prev.seed

\* C13 (amended): without MADSIM_TEST_SEED, the base seed is the whole
\* seconds of the clock reading, so two invocations get different seeds
\* exactly when they read the clock in different seconds.
C13_DifferentSecondDiffers ==
  DefaultedTwice =>
    /\ seed = now /\ prev.seed = prev.now
    /\ now # prev.now => seed # prev.seed
    /\ now = prev.now => seed = prev.seed

\* A second invocation, a whole second or more after the first, completed
\* with another default seed.
C13_Witness ==
  /\ DefaultedTwice /\ pc = "Done"
  /\ now > prev.now /\ seed # prev.seed

\* C14: resolution happens once and before any iteration: while resolving
\* no adapter exists yet, a resolved invocation never resolves again, and
\* from then on every step leaves seed, count, check and time_limit_s as
\* they are, whatever happens to the environment meanwhile.
C14_ConfigResolvedOnceAndKept ==
  [][ /\ Resolving => iters = <<>>
      /\ Resolved =>
           /\ Resolved'
           /\ seed' = seed /\ count' = count
           /\ check' = check /\ time_limit_s' = time_limit_s ]_vars

\* A third iteration runs with the configuration resolved at the start,
\* although the environment now holds an unparsable seed, another count,
\* a time limit and the determinism-check flag.
C14_Witness ==
  /\ pc = "BlockOn" /\ Len(iters) = 3
  /\ env.SEED = OkVar(<<"x">>) /\ env.CHECK = OkVar(<<"1">>)
  /\ ~check /\ ~time_limit_s.some
  /\ iters[3].seed = seed + 2

IsPrefix(a, b) == Len(a) <= Len(b) /\ a = SubSeq(b, 1, Len(a))

\* The adapter calls of a successful iteration, in the order of lines
\* 99-107.
FullOps ==
  <<"new_with_seed">>
    \o (IF check THEN <<"enable_deterministic_check">> ELSE <<>>)
    \o (IF time_limit_s.some THEN <<"set_time_limit">> ELSE <<>>)
    \o <<"block_on", "take_rand_log">>

\* C15 (as claimed): the adapter calls of every iteration follow the order
\* create, enable (when checking), set_time_limit (when and only when a
\* limit is configured), run, take; an iteration that is over has made all
\* of them up to the run, and take_rand_log exactly if the run succeeded.
C15_AdapterCallsInOrder ==
  \A k \in Ran :
    /\ IsPrefix(iters[k].ops, FullOps)
    /\ iters[k].started => (iters[k].limited <=> time_limit_s.some)
    /\ iters[k].drops = 1 =>
         iters[k].ops = IF iters[k].outcome = "ok" THEN FullOps
                        ELSE SubSeq(FullOps, 1, Len(FullOps) - 1)

\* C16: enable_deterministic_check is called on an adapter exactly when
\* `check` is set: then on every adapter, with no log on the first and with
\* a log on every other; without `check` on none, so no log taken from an
\* iteration is ever supplied to an adapter.
C16_EnabledIffCheck ==
  \A k \in Ran :
    /\ (k < Len(iters) \/ pc # "EnableCheck") => (iters[k].enabled <=> check)
    /\ iters[k].enabled =>
         /\ check
         /\ iters[k].log0 = None <=> k = 1
         /\ iters[k].log0 = PrevTaken(k)
    /\ ~iters[k].enabled =>
         /\ iters[k].log0 = None
         /\ \A n \in 1..Len(iters[k].ops) :
              iters[k].ops[n] # "enable_deterministic_check"

\* Without the determinism check, a third iteration runs on an adapter that
\* was not given the log the second iteration yielded.
C16_Witness ==
  /\ ~check /\ pc = "BlockOn" /\ Len(iters) = 3
  /\ iters[2].taken \in Logs
  /\ ~iters[3].enabled /\ iters[3].log0 = None

\* C17 (as claimed): every failed iteration failed in the test body, and
\* every iteration that began started the test body, whatever time limit
\* passed resolution.
C17_OnlyTheBodyFails ==
  \A k \in Ran :
    /\ IterFailed(k) => (iters[k].started /\ iters[k].payload \in Payloads)
    /\ iters[k].drops = 1 => iters[k].started

\* C18 (as claimed): without the determinism check the seed of iteration i
\* is the base seed plus i, successive seeds increase, and the seed
\* computation never ends the invocation.
C18_SeedsNeverWrapNorAbort ==
  (Resolved /\ ~check) =>
    /\ raised # OverflowPanic
    /\ \A k \in Ran :
         /\ iters[k].seed = seed + iters[k].idx
         /\ k > 1 => iters[k].seed > iters[k - 1].seed

====
